---- MODULE Spec2Model ----
(***************************************************************************)
(* obj23do: conversion of an OBJ mesh text into the 3DO text layout.       *)
(*                                                                         *)
(* Texts (file contents, lines, tokens, paths) are sequences of            *)
(* characters; a character is a one-character string, and the two         *)
(* characters outside the 7-bit range that the model uses are named       *)
(* "e_acute" and "A_uml".  A float is a whole number of ten-thousandths.   *)
(***************************************************************************)
EXTENDS Integers, Sequences, FiniteSets, TLC

VARIABLES
    pc,            \* position inside obj23do()
    source,        \* the input file: its lines, each with the text on disk
    inputfile,     \* parameter inputfile (a path)
    outputfile,    \* parameter outputfile (<<>> is None / the empty string)
    vscale,        \* parameter vscale (ten-thousandths)
    color,         \* parameter color
    shading,       \* parameter shading (a text)
    reversefaces,  \* parameter reversefaces
    objvtx,        \* local objvtx
    objface,       \* local objface
    c3do,          \* local c3do, the line collector
    outfile,       \* the file at the output path: [exists, data]
    err            \* the exception that ended the call, or "none"

vars == <<pc, source, inputfile, outputfile, vscale, color, shading,
          reversefaces, objvtx, objface, c3do, outfile, err>>

----------------------------------------------------------------------------
(* Bounds *)

\* the input file has at most MaxLines lines
MaxLines == 3

\* the paths of specification SpecParams have at most MaxPathLen characters
MaxPathLen == 3

----------------------------------------------------------------------------
(* Characters and the str methods the program uses *)

Ord(c) ==
    CASE c = "\t" -> 9
      [] c = "\n" -> 10
      [] c = " " -> 32
      [] c = "#" -> 35
      [] c = "+" -> 43
      [] c = "-" -> 45
      [] c = "." -> 46
      [] c = "/" -> 47
      [] c = "0" -> 48
      [] c = "1" -> 49
      [] c = "2" -> 50
      [] c = "3" -> 51
      [] c = "4" -> 52
      [] c = "5" -> 53
      [] c = "A" -> 65
      [] c = "D" -> 68
      [] c = "F" -> 70
      [] c = "G" -> 71
      [] c = "L" -> 76
      [] c = "O" -> 79
      [] c = "R" -> 82
      [] c = "T" -> 84
      [] c = "U" -> 85
      [] c = "d" -> 100
      [] c = "f" -> 102
      [] c = "m" -> 109
      [] c = "o" -> 111
      [] c = "t" -> 116
      [] c = "v" -> 118
      [] c = "x" -> 120
      [] c = "A_uml" -> 196
      [] c = "e_acute" -> 233

\* the 'ascii' codec accepts the code points below 128
IsAscii(s) == \A i \in 1..Len(s) : Ord(s[i]) < 128

IsDigit(c) == Ord(c) \in 48..57

DigitVal(c) == Ord(c) - 48

\* what str.strip() and the numeric constructors take for white space
IsSpace(c) == Ord(c) \in {9, 10, 11, 12, 13, 32}

Min(a, b) == IF a < b THEN a ELSE b

\* s[a:b] for 0 <= a <= b
Slice(s, a, b) == SubSeq(s, a + 1, Min(b, Len(s)))

\* s.startswith(p)
StartsWith(s, p) == Len(s) >= Len(p) /\ SubSeq(s, 1, Len(p)) = p

\* the positions of character d in s
Positions(s, d) == {i \in 1..Len(s) : s[i] = d}

SetMin(S) == CHOOSE i \in S : \A j \in S : i <= j

SetMax(S) == CHOOSE i \in S : \A j \in S : i >= j

\* s.split(d): the pieces between the occurrences of d, empty pieces kept
RECURSIVE Split(_, _)
Split(s, d) ==
    IF Positions(s, d) = {}
    THEN <<s>>
    ELSE LET i == SetMin(Positions(s, d))
         IN  <<SubSeq(s, 1, i - 1)>> \o Split(SubSeq(s, i + 1, Len(s)), d)

\* s.partition(d)[0]: the text before the first d, all of s when there is none
PartitionHead(s, d) ==
    IF Positions(s, d) = {}
    THEN s
    ELSE SubSeq(s, 1, SetMin(Positions(s, d)) - 1)

\* s.rpartition(d)[0]: the text before the last d, empty when there is none
RPartitionHead(s, d) ==
    IF Positions(s, d) = {}
    THEN <<>>
    ELSE SubSeq(s, 1, SetMax(Positions(s, d)) - 1)

\* s.strip()
Strip(s) ==
    LET keep == {i \in 1..Len(s) : ~IsSpace(s[i])}
    IN  IF keep = {} THEN <<>> ELSE SubSeq(s, SetMin(keep), SetMax(keep))

\* d.join(parts)
RECURSIVE JoinWith(_, _)
JoinWith(parts, d) ==
    IF parts = <<>> THEN <<>>
    ELSE IF Len(parts) = 1 THEN parts[1]
    ELSE parts[1] \o d \o JoinWith(Tail(parts), d)

\* the number a run of digits writes
RECURSIVE Num(_)
Num(ds) ==
    IF ds = <<>> THEN 0
    ELSE Num(SubSeq(ds, 1, Len(ds) - 1)) * 10 + DigitVal(ds[Len(ds)])

RECURSIVE Pow10(_)
Pow10(n) == IF n = 0 THEN 1 ELSE 10 * Pow10(n - 1)

HasSign(t) == t # <<>> /\ t[1] \in {"+", "-"}

Unsigned(t) == IF HasSign(t) THEN Tail(t) ELSE t

Signed(t, n) == IF HasSign(t) /\ t[1] = "-" THEN 0 - n ELSE n

\* int(k): white space stripped, an optional sign, then one or more digits.
\* ok is FALSE where int() raises ValueError.
ParseInt(k) ==
    LET t == Strip(k)
        b == Unsigned(t)
        good == b # <<>> /\ \A i \in 1..Len(b) : IsDigit(b[i])
    IN  [ok |-> good, val |-> IF good THEN Signed(t, Num(b)) ELSE 0]

\* float(k): white space stripped, an optional sign, digits with at most one
\* point and at least one digit; the value in ten-thousandths (decimals past
\* the fourth are cut: the tokens of the model have at most one).
\* ok is FALSE where float() raises ValueError.
ParseFloat(k) ==
    LET t == Strip(k)
        b == Unsigned(t)
        whole == PartitionHead(b, ".")
        frac == IF Positions(b, ".") = {} THEN <<>>
                ELSE Slice(SubSeq(b, Len(whole) + 2, Len(b)), 0, 4)
        good == /\ \A i \in 1..Len(b) : IsDigit(b[i]) \/ b[i] = "."
                /\ Cardinality(Positions(b, ".")) <= 1
                /\ \E i \in 1..Len(b) : IsDigit(b[i])
    IN  [ok |-> good,
         val |-> IF good
                 THEN Signed(t, Num(whole) * 10000
                                + Num(frac) * Pow10(4 - Len(frac)))
                 ELSE 0]

\* a * b on floats (ten-thousandths)
FMul(a, b) == (a * b) \div 10000

\* round(c, 3): the nearest thousandth; a tie (which no input of the model
\* produces) to the even one
Round3(c) ==
    LET q == c \div 10
        r == c % 10
    IN  IF r < 5 THEN q * 10
        ELSE IF r > 5 THEN (q + 1) * 10
        ELSE IF q % 2 = 0 THEN q * 10 ELSE (q + 1) * 10

----------------------------------------------------------------------------
(* The input file.  A line is written from a record keyword, the tokens    *)
(* after it and the separator put between them; a face line is written     *)
(* from its one-based vertex indices, each with an optional /x or /x/y     *)
(* suffix.                                                                 *)

DigitChar(n) == CHOOSE c \in {"0", "1", "2", "3", "4", "5"} : DigitVal(c) = n

\* the decimal text of an integer in -5..5
IntText(n) == IF n < 0 THEN <<"-", DigitChar(0 - n)>> ELSE <<DigitChar(n)>>

VLine(sep, toks) == [kw |-> <<"v">>, sep |-> sep, toks |-> toks, idx |-> <<>>]

FLine(sep, idx, subs) ==
    [kw |-> <<"f">>, sep |-> sep,
     toks |-> [i \in 1..Len(idx) |-> IntText(idx[i]) \o subs[i]],
     idx |-> idx]

OtherLine(kw, toks) == [kw |-> kw, sep |-> <<" ">>, toks |-> toks, idx |-> <<>>]

\* the text of a line on disk
Text(l) == JoinWith(<<l.kw>> \o l.toks, l.sep)

XYZ == << <<"1">>, <<"2">>, <<"0", ".", "5">> >>

VertexLines ==
    { VLine(<<" ">>, XYZ),                         \* v 1 2 0.5
      VLine(<<" ">>, SubSeq(XYZ, 1, 2)),           \* v 1 2
      VLine(<<" ">>, XYZ \o << <<"1">> >>),        \* v 1 2 0.5 1
      VLine(<<" ", " ">>, XYZ),                    \* v  1  2  0.5
      VLine(<<"\t">>, XYZ) }                       \* v<TAB>1<TAB>2<TAB>0.5

NoSub == <<>>

FaceLines ==
    { FLine(<<" ">>, <<1, 2, 3>>, <<NoSub, NoSub, NoSub>>),       \* f 1 2 3
      FLine(<<" ">>, <<0, 1, 1>>,
            <<NoSub, <<"/", "2">>, <<"/", "1", "/", "3">> >>),    \* f 0 1/2 1/1/3
      FLine(<<" ">>, <<1, 2, 3, 4>>,
            <<NoSub, NoSub, NoSub, NoSub>>),                      \* f 1 2 3 4
      FLine(<<" ">>, <<1, 2>>, <<NoSub, NoSub>>) }                \* f 1 2

OtherLines ==
    { OtherLine(<<"v", "t">>, << <<"1">>, <<"2">> >>),            \* vt 1 2
      OtherLine(<<>>, <<>>) }                                     \* blank line

\* a comment with a character outside the 7-bit range
Comment == OtherLine(<<"#">>, << <<"e_acute">> >>)                \* # e-acute

LineSet == VertexLines \cup FaceLines \cup OtherLines

\* the input files: up to MaxLines lines
Sources == UNION {[1..n -> LineSet] : n \in 0..MaxLines}

\* what inph.read() returns: the lines, newline-delimited
Content(src) == JoinWith([i \in 1..Len(src) |-> Text(src[i])], <<"\n">>)

----------------------------------------------------------------------------
(* _parseobj *)

\* line 32/37: line.split(' ')[1:4]
Fields(line) == Slice(Split(line, " "), 1, 4)

\* line 33: [float(k) * vscale for k in line]
ParseVertex(toks, scale) ==
    [ok |-> \A i \in 1..Len(toks) : ParseFloat(toks[i]).ok,
     val |-> [i \in 1..Len(toks) |-> FMul(ParseFloat(toks[i]).val, scale)]]

\* ParseFaceIndex without the decrement: the one-based index kept
ParseFaceIndex_OneBased(k) ==
    LET r == ParseInt(PartitionHead(k, "/"))
    IN  [ok |-> r.ok, val |-> r.val]

\* lines 38-39: the text before the first '/', as an integer, minus one
ParseFaceIndex(k) ==
    LET r == ParseInt(PartitionHead(k, "/"))
    IN  [ok |-> r.ok, val |-> r.val - 1]

ParseFace(toks) ==
    [ok |-> \A i \in 1..Len(toks) : ParseFaceIndex(toks[i]).ok,
     val |-> [i \in 1..Len(toks) |-> ParseFaceIndex(toks[i]).val]]

\* lines 29-40: the loop over the lines, with the collectors so far
RECURSIVE ParseLines(_, _, _, _)
ParseLines(lines, scale, vertices, faces) ==
    IF lines = <<>>
    THEN [err |-> "none", vertices |-> vertices, faces |-> faces]
    ELSE LET line == Head(lines)
         IN  IF StartsWith(line, <<"v", " ">>)
             THEN LET v == ParseVertex(Fields(line), scale)
                  IN  IF v.ok
                      THEN ParseLines(Tail(lines), scale,
                                      Append(vertices, v.val), faces)
                      ELSE [err |-> "ValueError", vertices |-> <<>>,
                            faces |-> <<>>]
             ELSE IF StartsWith(line, <<"f", " ">>)
             THEN LET f == ParseFace(Fields(line))
                  IN  IF f.ok
                      THEN ParseLines(Tail(lines), scale, vertices,
                                      Append(faces, f.val))
                      ELSE [err |-> "ValueError", vertices |-> <<>>,
                            faces |-> <<>>]
             ELSE ParseLines(Tail(lines), scale, vertices, faces)

\* _parseobj(content, vscale)
ParseObj(content, scale) == ParseLines(Split(content, "\n"), scale, <<>>, <<>>)

----------------------------------------------------------------------------
(* The records of the output.  A record is kept by its fields; the fixed   *)
(* records are constant 7-bit texts.                                       *)

TextRec(t) == [tag |-> "text", text |-> t]

CountRec(key, n) == [tag |-> "count", key |-> key, n |-> n]

\* line 84: '{0}: {1} {2} {3}'.format(id, vtr[0], vtr[1], vtr[2])
VertexRec(id, vtr) ==
    [tag |-> "vertex", id |-> id, x |-> vtr[1], y |-> vtr[2], z |-> vtr[3]]

\* line 90: '{0}: {1} {2} {3} {4} {5}'.format(id, fc[0], fc[1], fc[2], color, shading)
FaceRec(id, fc, col, shade) ==
    [tag |-> "face", id |-> id, v0 |-> fc[1], v1 |-> fc[2], v2 |-> fc[3],
     color |-> col, shading |-> shade]

Newline == [tag |-> "newline"]

\* Header with the POLYGONS record formatted from the vertex list
Header_CopiedCount(vtx, face) ==
    << TextRec("3DO 1.30"),
       TextRec("3DONAME GENERIC"),
       TextRec("OBJECTS 1"),
       CountRec("VERTICES", Len(vtx)),
       CountRec("POLYGONS", Len(vtx)),
       TextRec("PALETTE GENERIC.PAL"),
       TextRec("TEXTURES 0"),
       TextRec("OBJECT \"GENERIC\""),
       TextRec("TEXTURE -1") >>

\* lines 68-77
Header(vtx, face) ==
    << TextRec("3DO 1.30"),
       TextRec("3DONAME GENERIC"),
       TextRec("OBJECTS 1"),
       CountRec("VERTICES", Len(vtx)),
       CountRec("POLYGONS", Len(face)),
       TextRec("PALETTE GENERIC.PAL"),
       TextRec("TEXTURES 0"),
       TextRec("OBJECT \"GENERIC\""),
       TextRec("TEXTURE -1") >>

\* lines 81-84: the vertex block; enumerate() numbers from 0
VertexBlock(vtx) ==
    <<CountRec("VERTICES", Len(vtx))>>
    \o [i \in 1..Len(vtx) |->
          VertexRec(i - 1, [j \in 1..Len(vtx[i]) |-> Round3(vtx[i][j])])]

\* lines 88-90: the face block
FaceBlock(face, col, shade) ==
    <<CountRec("TRIANGLES", Len(face))>>
    \o [i \in 1..Len(face) |-> FaceRec(i - 1, face[i], col, shade)]

\* lines 84 and 90 index positions 0..2: IndexError on a shorter tuple
Indexable(tuples) == \A i \in 1..Len(tuples) : Len(tuples[i]) >= 3

\* SwapYZ exchanging the first two coordinates instead
SwapYZ_WrongPair(v) == <<v[2], v[1], v[3]>>

\* line 64: (a, c, b) for (a, b, c)
SwapYZ(v) == <<v[1], v[3], v[2]>>

\* line 64: the unpacking raises ValueError on a tuple that is no triple
Unpackable(vtx) == \A i \in 1..Len(vtx) : Len(vtx[i]) = 3

\* JoinRecords ending every record, the last one too, with a newline
JoinRecords_Trailing(recs) ==
    JoinWith([i \in 1..Len(recs) |-> <<recs[i], Newline>>], <<>>)

\* line 95: '\n'.join(c3do)
JoinRecords(recs) == JoinWith([i \in 1..Len(recs) |-> <<recs[i]>>], <<Newline>>)

\* line 94-95: the 'ascii' encoding of a record
Encodable(rec) == rec.tag = "face" => IsAscii(rec.shading)

\* line 53
DefaultName(path) == RPartitionHead(path, ".") \o <<".", "3", "d", "o">>

----------------------------------------------------------------------------
(* obj23do *)

NoError == [type |-> "none", at |-> "none"]

Raise(type) ==
    /\ pc' = "failed"
    /\ err' = [type |-> type, at |-> pc]

\* lines 52-53
DefaultOutput ==
    /\ pc = "start"
    /\ outputfile' = IF outputfile = <<>> THEN DefaultName(inputfile)
                     ELSE outputfile
    /\ pc' = "open"
    /\ UNCHANGED <<source, inputfile, vscale, color, shading, reversefaces,
                   objvtx, objface, c3do, outfile, err>>

\* line 57: the input file opens, or open() raises (no such file, no access)
OpenInput ==
    /\ pc = "open"
    /\ \/ pc' = "load" /\ err' = err
       \/ Raise("OSError")
    /\ UNCHANGED <<source, inputfile, outputfile, vscale, color, shading,
                   reversefaces, objvtx, objface, c3do, outfile>>

\* lines 58-60: read() decodes the file as 'ascii', _parseobj parses it
LoadObj ==
    /\ pc = "load"
    /\ LET content == Content(source)
           r == ParseObj(content, vscale)
       IN  IF ~IsAscii(content)
           THEN Raise("UnicodeDecodeError") /\ UNCHANGED <<objvtx, objface>>
           ELSE IF r.err # "none"
           THEN Raise(r.err) /\ UNCHANGED <<objvtx, objface>>
           ELSE /\ objvtx' = r.vertices
                /\ objface' = r.faces
                /\ pc' = "reverse"
                /\ err' = err
    /\ UNCHANGED <<source, inputfile, outputfile, vscale, color, shading,
                   reversefaces, c3do, outfile>>

\* lines 63-64
ReverseFaces ==
    /\ pc = "reverse"
    /\ IF ~reversefaces
       THEN pc' = "encode" /\ UNCHANGED <<objvtx, err>>
       ELSE IF ~Unpackable(objvtx)
       THEN Raise("ValueError") /\ UNCHANGED objvtx
       ELSE /\ objvtx' = [i \in 1..Len(objvtx) |-> SwapYZ(objvtx[i])]
            /\ pc' = "encode"
            /\ err' = err
    /\ UNCHANGED <<source, inputfile, outputfile, vscale, color, shading,
                   reversefaces, objface, c3do, outfile>>

\* lines 67-90
Encode ==
    /\ pc = "encode"
    /\ IF Indexable(objvtx) /\ Indexable(objface)
       THEN /\ c3do' = Header(objvtx, objface) \o VertexBlock(objvtx)
                       \o FaceBlock(objface, color, shading)
            /\ pc' = "save"
            /\ err' = err
       ELSE Raise("IndexError") /\ UNCHANGED c3do
    /\ UNCHANGED <<source, inputfile, outputfile, vscale, color, shading,
                   reversefaces, objvtx, objface, outfile>>

\* line 94: open(outputfile, 'w') creates the file or truncates it, or raises
\* (no such directory, no access) and leaves it alone
OpenOutput ==
    /\ pc = "save"
    /\ \/ /\ outfile' = [exists |-> TRUE, data |-> <<>>]
          /\ pc' = "write"
          /\ err' = err
       \/ Raise("OSError") /\ UNCHANGED outfile
    /\ UNCHANGED <<source, inputfile, outputfile, vscale, color, shading,
                   reversefaces, objvtx, objface, c3do>>

\* lines 95-96: write() encodes the whole text before any byte reaches the file
WriteOutput ==
    /\ pc = "write"
    /\ IF \A i \in 1..Len(c3do) : Encodable(c3do[i])
       THEN /\ outfile' = [outfile EXCEPT !.data = JoinRecords(c3do)]
            /\ pc' = "done"
            /\ err' = err
       ELSE Raise("UnicodeEncodeError") /\ UNCHANGED outfile
    /\ UNCHANGED <<source, inputfile, outputfile, vscale, color, shading,
                   reversefaces, objvtx, objface, c3do>>

Next ==
    \/ DefaultOutput
    \/ OpenInput
    \/ LoadObj
    \/ ReverseFaces
    \/ Encode
    \/ OpenOutput
    \/ WriteOutput

----------------------------------------------------------------------------
(* The calls explored *)

GOURAUD == <<"G", "O", "U", "R", "A", "U", "D">>

Shadings == {GOURAUD, <<"F", "L", "A_uml", "T">>}

\* the file at the output path before the call: none, or an earlier output
NoFile == [exists |-> FALSE, data |-> <<>>]

OldFile == [exists |-> TRUE, data |-> <<TextRec("3DO 1.30")>>]

DefaultColor == 32

Locals ==
    /\ pc = "start"
    /\ objvtx = <<>>
    /\ objface = <<>>
    /\ c3do = <<>>
    /\ err = NoError

\* every input file of up to MaxLines lines, converted by
\* obj23do('m.obj', shading=..., reversefaces=...)
Init ==
    /\ source \in Sources
    /\ inputfile = <<"m", ".", "o">>
    /\ outputfile = <<>>
    /\ vscale = 10000
    /\ color = DefaultColor
    /\ shading \in Shadings
    /\ reversefaces \in BOOLEAN
    /\ outfile = OldFile
    /\ Locals

Spec == Init /\ [][Next]_vars

\* the paths of up to MaxPathLen characters that name a file
Paths ==
    {p \in UNION {[1..n -> {"m", ".", "/"}] : n \in 1..MaxPathLen} :
        p[Len(p)] # "/"}

\* a triangle, a lone vertex, a short vertex, a comment that is not 7-bit
ParamSources ==
    { << VLine(<<" ">>, XYZ), FLine(<<" ">>, <<1, 1, 1>>, <<NoSub, NoSub, NoSub>>) >>,
      << VLine(<<" ">>, XYZ) >>,
      << VLine(<<" ">>, SubSeq(XYZ, 1, 2)) >>,
      << Comment >> }

\* a few input files, converted under every path and parameter setting
InitParams ==
    /\ source \in ParamSources
    /\ inputfile \in Paths
    /\ outputfile \in {<<>>, <<"o">>}
    /\ vscale \in {10000, 5000, 20000}
    /\ color \in {DefaultColor, 0}
    /\ shading \in Shadings
    /\ reversefaces \in BOOLEAN
    /\ outfile = NoFile
    /\ Locals

SpecParams == InitParams /\ [][Next]_vars

----------------------------------------------------------------------------
(* What the claims speak of *)

\* a vertex record of the source: a line starting with "v "
IsVertexRecord(l) == StartsWith(Text(l), <<"v", " ">>)

\* a face record of the source: a line starting with "f "
IsFaceRecord(l) == StartsWith(Text(l), <<"f", " ">>)

IsNewline(r) == r.tag = "newline"

IsRecord(r) == r.tag # "newline"

IsVertexOut(r) == r.tag = "vertex"

IsFaceOut(r) == r.tag = "face"

\* N and M of the source
NumV == Len(SelectSeq(source, IsVertexRecord))

NumF == Len(SelectSeq(source, IsFaceRecord))

\* the records of the output file, and its vertex and face records
OutRecords == SelectSeq(outfile.data, IsRecord)

OutVertices == SelectSeq(outfile.data, IsVertexOut)

OutFaces == SelectSeq(outfile.data, IsFaceOut)

\* the call has returned: the output was produced
Produced == pc = "done"

\* the positions of obj23do() after _parseobj has returned
PastParse == {"reverse", "encode", "save", "write", "done"}

\* the call has got past _parseobj, or has failed later than in it
Parsed == pc \in PastParse \/ (pc = "failed" /\ err.at \in PastParse)

----------------------------------------------------------------------------
\* C1: in every output produced from a source with N vertex records and M
\* face records, the header's VERTICES record and the vertex block's VERTICES
\* record state N, the header's POLYGONS record and the TRIANGLES record
\* state M, and the output holds exactly N vertex records and M face records.
C1_CountsAgree ==
    Produced =>
        /\ Len(OutRecords) >= 11
        /\ OutRecords[4] = CountRec("VERTICES", NumV)
        /\ OutRecords[5] = CountRec("POLYGONS", NumF)
        /\ OutRecords[10] = CountRec("VERTICES", NumV)
        /\ Len(OutRecords) >= 11 + NumV
        /\ OutRecords[11 + NumV] = CountRec("TRIANGLES", NumF)
        /\ Len(OutVertices) = NumV
        /\ Len(OutFaces) = NumF

\* an output with two vertices and one face
C1_Witness == Produced /\ NumV = 2 /\ NumF = 1

----------------------------------------------------------------------------
\* a vertex record with fewer than three coordinate tokens, single-spaced
IsShortVertex(l) == l.kw = <<"v">> /\ l.sep = <<" ">> /\ Len(l.toks) < 3

HasShortVertex == \E i \in 1..Len(source) : IsShortVertex(source[i])

\* C2: a source with a vertex record of fewer than three coordinate tokens
\* never gets past the parser (the failure is raised while parsing, under
\* either setting of reversefaces), the short vertex is never in the vertex
\* sequence, and the output file is left alone.
C2_ShortVertexRejected ==
    HasShortVertex =>
        /\ ~Parsed
        /\ \A i \in 1..Len(objvtx) : Len(objvtx[i]) = 3
        /\ outfile = OldFile

----------------------------------------------------------------------------
\* a face record with other than three index tokens, or before any vertex
IsBadFace(i) ==
    /\ source[i].kw = <<"f">>
    /\ source[i].sep = <<" ">>
    /\ \/ Len(source[i].idx) # 3
       \/ \A k \in 1..(i - 1) : ~IsVertexRecord(source[k])

HasBadFace == \E i \in 1..Len(source) : IsBadFace(i)

\* C3: a source with a face record of other than three index tokens, or with
\* a face record before any vertex record, never gets past the parser: the
\* record is neither truncated to three tokens nor added to the faces.
C3_BadFaceRejected == HasBadFace => ~Parsed /\ objface = <<>>

----------------------------------------------------------------------------
\* C4: in every output produced, the three vertex identifiers of every face
\* record lie in 0..N-1.
C4_FaceIndicesInRange ==
    Produced =>
        \A j \in 1..Len(OutFaces) :
            {OutFaces[j].v0, OutFaces[j].v1, OutFaces[j].v2}
                \subseteq 0..(NumV - 1)

----------------------------------------------------------------------------
\* C5: when the call fails, with whatever error, the file at the output path
\* is as it was before the call (under Spec: the earlier output OldFile).
C5_FailureLeavesOutput == pc = "failed" => outfile = OldFile

----------------------------------------------------------------------------
\* the call on the same source and parameters with reversefaces off: that it
\* returns, and what it parses and writes
Plain == ParseObj(Content(source), vscale)

PlainText ==
    JoinRecords(Header(Plain.vertices, Plain.faces) \o VertexBlock(Plain.vertices)
                \o FaceBlock(Plain.faces, color, shading))

PlainReturns ==
    /\ IsAscii(Content(source))
    /\ Plain.err = "none"
    /\ Indexable(Plain.vertices)
    /\ Indexable(Plain.faces)
    /\ \A i \in 1..Len(PlainText) : Encodable(PlainText[i])

PlainVertices == SelectSeq(PlainText, IsVertexOut)

PlainFaces == SelectSeq(PlainText, IsFaceOut)

Coords(r) == <<r.x, r.y, r.z>>

\* C6: where the call with reversefaces on produces an output, the call with
\* it off produces one too, with the same number of vertex records, the same
\* face records, and for every i the vertex record i (x, y, z) where the
\* reversed output has (x, z, y); swapping twice gives the vertex back.
C6_ReverseSwapsYZ ==
    (Produced /\ reversefaces) =>
        LET out == OutVertices
            plain == PlainVertices
        IN  /\ PlainReturns
            /\ Len(out) = Len(plain)
            /\ \A i \in 1..Len(out) :
                  /\ out[i].id = plain[i].id
                  /\ out[i].x = plain[i].x
                  /\ out[i].y = plain[i].z
                  /\ out[i].z = plain[i].y
                  /\ SwapYZ(SwapYZ(Coords(out[i]))) = Coords(out[i])
                  /\ SwapYZ(Coords(out[i])) = Coords(plain[i])
            /\ OutFaces = PlainFaces

\* a reversed output with a vertex whose y and z differ, and a face
C6_Witness ==
    /\ Produced
    /\ reversefaces
    /\ Len(OutFaces) >= 1
    /\ \E i \in 1..Len(OutVertices) : OutVertices[i].y # OutVertices[i].z

----------------------------------------------------------------------------
SourceFaces == SelectSeq(source, IsFaceRecord)

\* C7: in every output produced, the j-th face record stands for the j-th
\* face record of the source, and where that one is f a b c (each token an
\* index, index/x or index/x/y) it carries a-1, b-1, c-1 in that order.
C7_FaceTranslation ==
    Produced =>
        /\ Len(OutFaces) = Len(SourceFaces)
        /\ \A j \in 1..Len(SourceFaces) :
              Len(SourceFaces[j].idx) = 3 =>
                  /\ OutFaces[j].id = j - 1
                  /\ OutFaces[j].v0 = SourceFaces[j].idx[1] - 1
                  /\ OutFaces[j].v1 = SourceFaces[j].idx[2] - 1
                  /\ OutFaces[j].v2 = SourceFaces[j].idx[3] - 1

\* an output of two different three-index faces, the later one with /x and
\* /x/y tokens
C7_Witness ==
    /\ Produced
    /\ Len(SourceFaces) = 2
    /\ SourceFaces[1].idx = <<1, 2, 3>>
    /\ SourceFaces[2].idx = <<0, 1, 1>>
    /\ \E k \in 1..3 : Len(SourceFaces[2].toks[k]) > 1

----------------------------------------------------------------------------
\* C8: every output produced is 11 + N + M records joined by newlines with
\* none at the end: the nine header records in their order, VERTICES N, the
\* N vertex records numbered 0..N-1, TRIANGLES M, and the M face records
\* numbered 0..M-1, each with the configured color and shading.
C8_OutputLayout ==
    Produced =>
        LET d == outfile.data
            n == 11 + NumV + NumF
            rec(k) == d[2 * k - 1]
        IN  /\ Len(d) = 2 * n - 1
            /\ \A k \in 1..Len(d) : IsNewline(d[k]) <=> k % 2 = 0
            /\ rec(1) = TextRec("3DO 1.30")
            /\ rec(2) = TextRec("3DONAME GENERIC")
            /\ rec(3) = TextRec("OBJECTS 1")
            /\ rec(4) = CountRec("VERTICES", NumV)
            /\ rec(5) = CountRec("POLYGONS", NumF)
            /\ rec(6) = TextRec("PALETTE GENERIC.PAL")
            /\ rec(7) = TextRec("TEXTURES 0")
            /\ rec(8) = TextRec("OBJECT \"GENERIC\"")
            /\ rec(9) = TextRec("TEXTURE -1")
            /\ rec(10) = CountRec("VERTICES", NumV)
            /\ \A i \in 1..NumV :
                  rec(10 + i).tag = "vertex" /\ rec(10 + i).id = i - 1
            /\ rec(11 + NumV) = CountRec("TRIANGLES", NumF)
            /\ \A j \in 1..NumF :
                  /\ rec(11 + NumV + j).tag = "face"
                  /\ rec(11 + NumV + j).id = j - 1
                  /\ rec(11 + NumV + j).color = color
                  /\ rec(11 + NumV + j).shading = shading

\* an output with a vertex block and a face block
C8_Witness == Produced /\ NumV >= 1 /\ NumF >= 2

----------------------------------------------------------------------------
\* the directory part of a path (through its last "/") and its file name
DirPart(path) ==
    IF Positions(path, "/") = {} THEN <<>>
    ELSE SubSeq(path, 1, SetMax(Positions(path, "/")))

FileName(path) == SubSeq(path, Len(DirPart(path)) + 1, Len(path))

\* the file name without its extension (the part after its last dot)
Stem(name) == IF Positions(name, ".") = {} THEN name ELSE RPartitionHead(name, ".")

ReplacedExtension(path) ==
    DirPart(path) \o Stem(FileName(path)) \o <<".", "3", "d", "o">>

\* C9: when no output path is given, the output path used is the input path
\* with the extension of its file name replaced by .3do, its directory part
\* and base name kept.
C9_DefaultOutputPath ==
    [][(pc = "start" /\ outputfile = <<>>) =>
           outputfile' = ReplacedExtension(inputfile)]_vars

----------------------------------------------------------------------------
\* the source with every vertex and face line written with single spaces
SingleSpaced(l) ==
    IF l.kw \in {<<"v">>, <<"f">>} THEN [l EXCEPT !.sep = <<" ">>] ELSE l

Normal == ParseObj(Content([i \in 1..Len(source) |-> SingleSpaced(source[i])]),
                   vscale)

\* C10: a source whose vertex and face records separate their tokens by runs
\* of spaces or by tabs parses as its single-spaced form does: where that
\* form parses, the parser does not fail and returns the same vertices and
\* faces.
C10_WhitespaceSeparated ==
    Normal.err = "none" =>
        /\ ~(pc = "failed" /\ err.at = "load")
        /\ pc = "reverse" => (objvtx = Normal.vertices /\ objface = Normal.faces)

====
